---- MODULE Spec2Model ----
(***************************************************************************)
(* A model of the quote manager of src/src/main.py: the JSON store file,   *)
(* the Quote list built from it, and the operations add, prune, query and  *)
(* duplicate detection.                                                    *)
(*                                                                         *)
(* Strings of decimal digits (the keys of the JSON object) are sequences   *)
(* of digits, so that str() and int() are real conversions: <<0, 1>> is    *)
(* the key "01", and int("01") = int("1") = 1.                             *)
(* An optional value is a sequence of length at most one: <<>> is None.    *)
(*                                                                         *)
(* The commands are main() as called: the sys.exit() of line 338 stands    *)
(* outside every function and is not part of any operation modelled here.  *)
(* A store is small enough for json.dump to reach the file in one write,   *)
(* when the writer closes.                                                 *)
(***************************************************************************)
EXTENDS Integers, Sequences, FiniteSets, TLC

VARIABLES
    files,    \* the file system: file name -> contents of the file
    quotes,   \* the list[Quote] handed to a function called on its own
    call,     \* the last function call or command: its arguments and result
    procs,    \* the concurrent invocations of the add command
    ncmds     \* how many commands have run

vars == <<files, quotes, call, procs, ncmds>>

\* ---------------------------------------------------------------- bounds
MaxLen == 3
MaxCmds == 5

\* ------------------------------------------------------------ the values
QUOTE_FILE == "quotes.json"
CustomFile == "custom.json"
FileNames == {QUOTE_FILE, CustomFile}

Texts == {"Hi", "Yo"}
Authors == {"A", "B"}

None == <<>>
Some(x) == <<x>>

\* str(n) of a non-negative int, as json.dump writes an int key
RECURSIVE Str(_)
Str(n) == IF n < 10 THEN <<n>> ELSE Str(n \div 10) \o <<n % 10>>

\* int(s) of a string of decimal digits
RECURSIVE IntOf(_)
IntOf(s) ==
    IF Len(s) = 0 THEN 0
    ELSE 10 * IntOf(SubSeq(s, 1, Len(s) - 1)) + s[Len(s)]

\* A key of a Python dict is a str (read from JSON) or an int (the identifier
\* add_quote is given); the str "2" and the int 2 are different keys.
StrKey(s) == [t |-> "str", s |-> s, n |-> 0]
IntKey(n) == [t |-> "int", s |-> <<>>, n |-> n]

Quote(identifier, quote, author) ==
    [identifier |-> identifier, quote |-> quote, author |-> author]

\* ----------------------------------------------------- dict, as Python's
\* A dict is the sequence of its items in insertion order, keys distinct.
Item(k, quote, author) == [k |-> k, quote |-> quote, author |-> author]

HasKey(d, k) == \E i \in 1..Len(d) : d[i].k = k

DictSetAppend(d, k, quote, author) == Append(d, Item(k, quote, author))

\* d[k] = {"quote": quote, "author": author}
DictSet(d, k, quote, author) ==
    IF HasKey(d, k)
    THEN [i \in 1..Len(d) |->
            IF d[i].k = k THEN Item(k, quote, author) ELSE d[i]]
    ELSE Append(d, Item(k, quote, author))

\* del d[k], for a key of d
DictDel(d, k) == SelectSeq(d, LAMBDA it : it.k # k)

DictLen(d) == Len(d)

\* ------------------------------------------------------------ JSON text
\* The text of a JSON object is the sequence of its "key": value members
\* as written; the same key may be written twice.
Member(key, quote, author) == [key |-> key, quote |-> quote, author |-> author]

KeyText(k) == IF k.t = "int" THEN Str(k.n) ELSE k.s

\* json.dump(d, writer): every item in order, every key turned into a string
JsonDump(d) ==
    [i \in 1..Len(d) |-> Member(KeyText(d[i].k), d[i].quote, d[i].author)]

JsonLoadsKeepAll(text) ==
    [i \in 1..Len(text) |->
        Item(StrKey(text[i].key), text[i].quote, text[i].author)]

\* json.loads(text): members are inserted left to right, a repeated key
\* keeps its first position and takes the last value
RECURSIVE JsonLoads(_)
JsonLoads(text) ==
    IF Len(text) = 0 THEN <<>>
    ELSE LET m == text[Len(text)]
         IN DictSet(JsonLoads(SubSeq(text, 1, Len(text) - 1)),
                    StrKey(m.key), m.quote, m.author)

\* ---------------------------------------------------------------- files
\* A file is absent, of zero length, or holds the text of a JSON object.
Absent == [kind |-> "absent", text |-> <<>>]
ZeroLength == [kind |-> "empty", text |-> <<>>]
JsonFile(text) == [kind |-> "json", text |-> text]

\* file_is_empty(file)
file_is_empty(fs, file) == fs[file].kind = "empty"

\* read_json(file): the dict read, and the file system it leaves (an absent
\* file is created with zero length)
read_json_fs(fs, file) ==
    IF fs[file].kind = "absent"
    THEN [fs EXCEPT ![file] = ZeroLength]
    ELSE fs

read_json(fs, file) ==
    IF fs[file].kind = "absent" THEN <<>>
    ELSE IF ~file_is_empty(fs, file) THEN JsonLoads(fs[file].text)
    ELSE <<>>

LoadQuotesPositional(fs, file) ==
    LET contents == read_json(fs, file)
    IN [i \in 1..Len(contents) |->
          Quote(Str(i - 1), contents[i].quote, contents[i].author)]

\* load_quotes(file): one Quote per key of the dict, the key as identifier
load_quotes(fs, file) ==
    LET contents == read_json(fs, file)
    IN [i \in 1..Len(contents) |->
          Quote(contents[i].k.s, contents[i].quote, contents[i].author)]

\* get_quote_diff(old_list, new_dict)
get_quote_diff(old_list, new_dict) == Len(old_list) - DictLen(new_dict)

\* ------------------------------------------------------------ functions
\* random_quote(quotes): every value random.choice can return
random_quote(qs) ==
    IF Len(qs) # 0 THEN {Some(qs[i]) : i \in 1..Len(qs)} ELSE {None}

SeenAfter(seen, quote) == Append(seen, quote.quote)

\* the loop of get_duplicate_quotes from position i on
RECURSIVE DuplicateLoop(_, _, _, _)
DuplicateLoop(qs, i, seen_quotes, duplicate_quotes) ==
    IF i > Len(qs) THEN duplicate_quotes
    ELSE LET quote == qs[i]
             isSeen == \E j \in 1..Len(seen_quotes) : seen_quotes[j] = quote.quote
         IN DuplicateLoop(qs, i + 1, SeenAfter(seen_quotes, quote),
                IF isSeen THEN Append(duplicate_quotes, quote)
                ELSE duplicate_quotes)

GetDuplicatesByQuoteAndAuthor(qs) ==
    SelectSeq([i \in 1..Len(qs) |-> [q |-> qs[i], i |-> i]],
              LAMBDA e : \E j \in 1..(e.i - 1) :
                  qs[j].quote = e.q.quote /\ qs[j].author = e.q.author)

\* get_duplicate_quotes(quotes)
get_duplicate_quotes(qs) == DuplicateLoop(qs, 1, <<>>, <<>>)

\* the first index of qs whose identifier is numerically n, or 0
FirstIndexWithId(qs, n) ==
    IF \E i \in 1..Len(qs) : IntOf(qs[i].identifier) = n
    THEN CHOOSE i \in 1..Len(qs) :
            /\ IntOf(qs[i].identifier) = n
            /\ \A j \in 1..(i - 1) : IntOf(qs[j].identifier) # n
    ELSE 0

QuotesByAnyone(qs, author) == qs

QuotesBy(qs, author) == SelectSeq(qs, LAMBDA q : q.author = author)

QueryQuoteAuthorFirst(qs, quote_identifier, quote_author) ==
    IF quote_author # None
    THEN random_quote(QuotesBy(qs, quote_author[1]))
    ELSE IF quote_identifier # None
              /\ FirstIndexWithId(qs, IntOf(quote_identifier[1])) # 0
         THEN {Some(qs[FirstIndexWithId(qs, IntOf(quote_identifier[1]))])}
         ELSE {None}

\* query_quote(quotes, quote_identifier, quote_author): every value it can
\* return. The arguments are optional: None or Some(value).
query_quote(qs, quote_identifier, quote_author) ==
    LET found == IF quote_identifier # None
                 THEN FirstIndexWithId(qs, IntOf(quote_identifier[1]))
                 ELSE 0
    IN IF found # 0 THEN {Some(qs[found])}
       ELSE IF quote_author # None
            THEN random_quote(QuotesBy(qs, quote_author[1]))
            ELSE {None}

\* ------------------------------------------------------ store operations
\* add_quote(quote, author, identifier, file): the file system it leaves.
\* The dict is read from `file`; the dump is written to QUOTE_FILE.
add_quote(fs, quote, author, identifier, file) ==
    LET _quote == Quote(identifier, quote, author)
        fs1 == read_json_fs(fs, file)
        file_contents == DictSet(read_json(fs, file), IntKey(_quote.identifier),
                                 _quote.quote, _quote.author)
    IN [fs1 EXCEPT ![QUOTE_FILE] = JsonFile(JsonDump(file_contents))]

\* write_pruned_quotes(quotes_list, quotes_dict, verbose, file)
write_pruned_quotes(fs, quotes_dict, file) ==
    [fs EXCEPT ![file] = JsonFile(JsonDump(quotes_dict))]

DeleteFirstOnly(d, dups, i) ==
    [kind |-> "dict", dict |-> DictDel(d, StrKey(dups[1].identifier))]

\* the loop of read_pruned_quotes from duplicate i on: del quotes_dict[key]
\* raises KeyError for a key the dict does not have
RECURSIVE DeleteEach(_, _, _)
DeleteEach(d, dups, i) ==
    IF i > Len(dups) THEN [kind |-> "dict", dict |-> d]
    ELSE IF ~HasKey(d, StrKey(dups[i].identifier))
         THEN [kind |-> "KeyError", dict |-> d]
         ELSE DeleteEach(DictDel(d, StrKey(dups[i].identifier)), dups, i + 1)

ReadPrunedAlwaysDict(fs, quotes_dict) ==
    DeleteEach(quotes_dict, get_duplicate_quotes(load_quotes(fs, QUOTE_FILE)), 1)

\* read_pruned_quotes(quotes_dict, verbose): the pruned dict, the str
\* "No duplicates found", or the KeyError raised. The quotes are loaded
\* from QUOTE_FILE, whatever file quotes_dict was read from.
read_pruned_quotes(fs, quotes_dict) ==
    LET quotes_list == load_quotes(fs, QUOTE_FILE)
        duplicate_quotes == get_duplicate_quotes(quotes_list)
    IN IF Len(duplicate_quotes) = 0
       THEN [kind |-> "str", dict |-> <<>>]
       ELSE DeleteEach(quotes_dict, duplicate_quotes, 1)

\* ------------------------------------------------- the record of a call
NoCall ==
    [op |-> "none", id |-> None, author |-> None, text |-> "", file |-> None,
     ret |-> <<>>, signal |-> "", n |-> 0, before |-> <<>>, written |-> {},
     plain |-> TRUE]

NoFiles == [f \in FileNames |-> Absent]

\* ================================================================ SpecFn
\* The functions called on their own, on every list load_quotes can build
\* (keys are distinct strings; "1" and "01" are distinct and both mean 1).
FnKeys == {<<0>>, <<1>>, <<0, 1>>, <<2>>}
QueryIds == FnKeys \cup {<<3>>}
FnQuotes == {Quote(k, t, a) : k \in FnKeys, t \in Texts, a \in Authors}

DistinctKeys(qs) ==
    \A i, j \in 1..Len(qs) : i # j => qs[i].identifier # qs[j].identifier

FnLists ==
    UNION {{qs \in [1..n -> FnQuotes] : DistinctKeys(qs)} : n \in 0..MaxLen}

OptionOf(S) == {None} \cup {Some(x) : x \in S}

FnInit ==
    /\ quotes \in FnLists
    /\ call = NoCall
    /\ files = NoFiles
    /\ procs = <<>>
    /\ ncmds = 0

CallGetDuplicates ==
    /\ call' = [NoCall EXCEPT !.op = "get_duplicate_quotes",
                              !.ret = get_duplicate_quotes(quotes)]
    /\ UNCHANGED <<files, quotes, procs, ncmds>>

CallQuery ==
    \E id \in OptionOf(QueryIds), author \in OptionOf(Authors) :
      \E r \in query_quote(quotes, id, author) :
        /\ call' = [NoCall EXCEPT !.op = "query_quote", !.id = id,
                                  !.author = author, !.ret = r]
        /\ UNCHANGED <<files, quotes, procs, ncmds>>

FnNext == CallGetDuplicates \/ CallQuery

SpecFn == FnInit /\ [][FnNext]_vars

\* ---------------------------------------------------------------- C1
\* the positions of qs whose text is the text of an earlier position
DupIndices(qs) ==
    {i \in 1..Len(qs) : \E j \in 1..(i - 1) : qs[j].quote = qs[i].quote}

\* the k-th smallest element of a set of positions
KthOf(S, k) == CHOOSE i \in S : Cardinality({j \in S : j <= i}) = k

\* C1: get_duplicate_quotes returns, in iteration order, exactly the quotes
\* whose text is the text of a quote at an earlier position of the list,
\* whatever their authors: a first occurrence is never returned, every later
\* occurrence is.
C1_DuplicatesAreLaterOccurrences ==
    call.op = "get_duplicate_quotes" =>
        /\ Len(call.ret) = Cardinality(DupIndices(quotes))
        /\ \A k \in 1..Len(call.ret) : call.ret[k] = quotes[KthOf(DupIndices(quotes), k)]

C1_Witness ==
    /\ call.op = "get_duplicate_quotes"
    /\ Len(quotes) = 3
    /\ quotes[1].quote = quotes[2].quote
    /\ quotes[2].quote = quotes[3].quote
    /\ quotes[1].author # quotes[2].author
    /\ call.ret = <<quotes[2], quotes[3]>>

\* ---------------------------------------------------------------- C4
HasId(qs, n) == \E i \in 1..Len(qs) : IntOf(qs[i].identifier) = n

\* C4: query_quote given the identifier of a quote of the collection returns
\* a quote of the collection whose identifier is numerically that
\* identifier, whatever the author argument is.
C4_QueryByIdentifier ==
    (/\ call.op = "query_quote"
     /\ call.id # None
     /\ HasId(quotes, IntOf(call.id[1])))
    => /\ call.ret # None
       /\ \E i \in 1..Len(quotes) : quotes[i] = call.ret[1]
       /\ IntOf(call.ret[1].identifier) = IntOf(call.id[1])

C4_Witness ==
    /\ call.op = "query_quote"
    /\ call.id = Some(<<1>>)
    /\ call.author # None
    /\ call.ret # None
    /\ call.ret[1].identifier = <<0, 1>>
    /\ call.ret[1].author # call.author[1]
    /\ \E i \in 1..Len(quotes) : quotes[i].author = call.author[1]

\* ---------------------------------------------------------------- C5
\* C5: query_quote with no identifier and an author returns a quote of the
\* collection by exactly that author when there is one, and None when
\* there is none.
C5_QueryByAuthor ==
    (/\ call.op = "query_quote"
     /\ call.id = None
     /\ call.author # None)
    => IF \E i \in 1..Len(quotes) : quotes[i].author = call.author[1]
       THEN /\ call.ret # None
            /\ \E i \in 1..Len(quotes) : quotes[i] = call.ret[1]
            /\ call.ret[1].author = call.author[1]
       ELSE call.ret = None

C5_Witness ==
    /\ call.op = "query_quote"
    /\ call.id = None
    /\ call.author # None
    /\ Len(quotes) = 3
    /\ quotes[1].author = call.author[1]
    /\ quotes[2].author # call.author[1]
    /\ call.ret = Some(quotes[3])

\* ---------------------------------------------------------------- C8
\* C8: when an identifier is given, query_quote returns the first quote
\* whose identifier matches, or None when no quote has that identifier,
\* also when an author with matching quotes is given at the same time.
C8_IdentifierOnly ==
    (call.op = "query_quote" /\ call.id # None)
    => IF HasId(quotes, IntOf(call.id[1]))
       THEN call.ret = Some(quotes[FirstIndexWithId(quotes, IntOf(call.id[1]))])
       ELSE call.ret = None

\* =============================================================== SpecCmd
\* Commands run one at a time: main() with the command and --file of the
\* command line. The default store starts absent; the file --file names is
\* absent or a store the user brings.
UserStore ==
    JsonFile(<<Member(<<0>>, "Hi", "A"), Member(<<1>>, "Hi", "B")>>)

FileOption == OptionOf({CustomFile})

\* main, line 291: the file of --file, or QUOTE_FILE
QuoteFileOf(file) == IF file = None THEN QUOTE_FILE ELSE file[1]

CmdInit ==
    /\ files \in {[NoFiles EXCEPT ![CustomFile] = c] : c \in {Absent, UserStore}}
    /\ quotes = <<>>
    /\ call = NoCall
    /\ procs = <<>>
    /\ ncmds = 0

\* main, case "add"
CmdAdd ==
    /\ ncmds < MaxCmds
    /\ \E text \in Texts, author \in Authors, file \in FileOption :
        LET fs1 == read_json_fs(files, QUOTE_FILE)
            loaded == load_quotes(files, QUOTE_FILE)
            quote_file == QuoteFileOf(file)
        IN /\ files' = add_quote(fs1, text, author, Len(loaded), quote_file)
           /\ call' = [NoCall EXCEPT !.op = "add", !.text = text,
                          !.author = Some(author), !.file = file,
                          !.n = Len(loaded), !.before = files,
                          !.written = {QUOTE_FILE},
                          !.plain = call.plain /\ file = None]
    /\ ncmds' = ncmds + 1
    /\ UNCHANGED <<quotes, procs>>

\* main, case "prune"
CmdPrune ==
    /\ ncmds < MaxCmds
    /\ \E file \in FileOption :
        LET fs1 == read_json_fs(files, QUOTE_FILE)
            loaded == load_quotes(files, QUOTE_FILE)
            quote_file == QuoteFileOf(file)
            fs2 == read_json_fs(fs1, quote_file)
            pruned_quotes == read_pruned_quotes(fs2, read_json(fs1, quote_file))
            quotes_is_dict == pruned_quotes.kind = "dict"
        IN /\ files' = IF quotes_is_dict
                       THEN write_pruned_quotes(fs2, pruned_quotes.dict, QUOTE_FILE)
                       ELSE fs2
           /\ call' = [NoCall EXCEPT !.op = "prune", !.file = file,
                          !.before = files,
                          !.signal =
                             IF pruned_quotes.kind = "str"
                             THEN "No duplicates found"
                             ELSE IF quotes_is_dict THEN "" ELSE "KeyError",
                          !.ret = pruned_quotes.dict,
                          !.n = IF quotes_is_dict
                                THEN get_quote_diff(loaded, pruned_quotes.dict)
                                ELSE 0,
                          !.written = IF quotes_is_dict THEN {QUOTE_FILE} ELSE {},
                          !.plain = call.plain /\ file = None]
    /\ ncmds' = ncmds + 1
    /\ UNCHANGED <<quotes, procs>>

\* load_quotes(file) and read_json(file) of one file, as the fixtures of
\* src/tests/test_quotes.py call them
CmdLoad ==
    /\ \E f \in FileNames :
        /\ files' = read_json_fs(files, f)
        /\ call' = [NoCall EXCEPT !.op = "load_quotes", !.file = Some(f),
                       !.before = files, !.ret = load_quotes(files, f),
                       !.n = get_quote_diff(load_quotes(files, f),
                                            read_json(files, f)),
                       !.plain = call.plain]
    /\ UNCHANGED <<quotes, procs, ncmds>>

CmdNext == CmdAdd \/ CmdPrune \/ CmdLoad

SpecCmd == CmdInit /\ [][CmdNext]_vars

KeysOf(text) == {text[i].key : i \in 1..Len(text)}

\* the last member of the text with the key
LastMember(text, key) ==
    text[CHOOSE i \in 1..Len(text) :
            /\ text[i].key = key
            /\ \A j \in (i + 1)..Len(text) : text[j].key # key]

\* C6: load_quotes yields exactly one Quote per key of the store mapping,
\* with the key as identifier and the key's text and author, so that
\* get_quote_diff of the list and the mapping is 0; an absent file (which
\* is created, of zero length) or a zero-length file yields the empty list.
C6_LoadOneQuotePerKey ==
    call.op = "load_quotes" =>
        LET store == call.before[call.file[1]]
            keys == KeysOf(store.text)
        IN /\ Len(call.ret) = Cardinality(keys)
           /\ \A key \in keys :
                \E i \in 1..Len(call.ret) :
                    /\ call.ret[i].identifier = key
                    /\ call.ret[i].quote = LastMember(store.text, key).quote
                    /\ call.ret[i].author = LastMember(store.text, key).author
           /\ call.n = 0
           /\ store.kind \in {"absent", "empty"} =>
                /\ call.ret = <<>>
                /\ files[call.file[1]] = ZeroLength

C6_Witness ==
    /\ call.op = "load_quotes"
    /\ call.file = Some(QUOTE_FILE)
    /\ Len(call.ret) = 2
    /\ call.ret[1].identifier = <<0>>
    /\ call.ret[2].identifier = <<2>>

\* ---------------------------------------------------------------- C9
\* C9: when add and prune commands run one at a time on the store
\* quotes.json, the identifier an add gives the new quote is never already
\* a key of the store: the add raises the number of stored quotes by one
\* and leaves every stored quote in place.
C9_AddTakesFreshIdentifier ==
    LET old == read_json(call.before, QUOTE_FILE)
        new == read_json(files, QUOTE_FILE)
    IN (call.op = "add" /\ call.plain)
       => /\ ~HasKey(old, StrKey(Str(call.n)))
          /\ Len(new) = Len(old) + 1
          /\ \A i \in 1..Len(old) : new[i] = old[i]

\* ---------------------------------------------------------------- C10
\* C10: add_quote given the file of --file reads and rewrites only that
\* file: the new quote ends up in it and quotes.json keeps its mapping.
C10_AddWritesTheGivenFile ==
    (call.op = "add" /\ call.file = Some(CustomFile))
    => /\ \E i \in 1..Len(read_json(files, CustomFile)) :
             read_json(files, CustomFile)[i] =
                 Item(StrKey(Str(call.n)), call.text, call.author[1])
       /\ read_json(files, QUOTE_FILE) = read_json(call.before, QUOTE_FILE)
       /\ call.written = {CustomFile}

\* ============================================================== SpecRace
\* Two invocations of the add command (no --file) run at once on the store
\* quotes.json. Each is the sequence of its system calls: main's
\* load_quotes() (the count), add_quote's read_json (the store read), the
\* open(QUOTE_FILE, "w") that truncates the file and the json.dump that is
\* flushed when the writer closes. read_json looks at the file twice:
\* os.path.exists / os.stat first, reader.read() after.
Procs == {1, 2}
ProcAuthor(p) == IF p = 1 THEN "A" ELSE "B"

\* the store in place before the two adds: one quote, by the default author
StoredStore == JsonFile(<<Member(<<0>>, "Hi", "Anonymous")>>)

NewProc(text, author) ==
    [pc |-> "load_stat", text |-> text, author |-> author, n |-> 0,
     file_contents |-> <<>>]

RaceInit ==
    /\ files \in {[NoFiles EXCEPT ![QUOTE_FILE] = c] : c \in {Absent, StoredStore}}
    /\ procs \in {[p \in Procs |-> NewProc(t[p], ProcAuthor(p))] :
                    t \in [Procs -> Texts]}
    /\ quotes = <<>>
    /\ call = NoCall
    /\ ncmds = 0

\* json.loads(reader.read()) of the file as it is now: a file truncated
\* since the os.stat holds no JSON text
ReadText(fs, file) == fs[file].kind = "json"

\* main, line 290, load_quotes(): read_json up to file_is_empty
LoadStat(p) ==
    /\ procs[p].pc = "load_stat"
    /\ files' = read_json_fs(files, QUOTE_FILE)
    /\ procs' = [procs EXCEPT ![p].pc =
                    IF files[QUOTE_FILE].kind = "json" THEN "load_read"
                    ELSE "add_stat",
                 ![p].n = 0]
    /\ UNCHANGED <<quotes, call, ncmds>>

\* main, line 290, load_quotes(): the read, and len(quotes) of line 314
LoadRead(p) ==
    /\ procs[p].pc = "load_read"
    /\ procs' = IF ReadText(files, QUOTE_FILE)
                THEN [procs EXCEPT ![p].pc = "add_stat",
                         ![p].n = Len(load_quotes(files, QUOTE_FILE))]
                ELSE [procs EXCEPT ![p].pc = "JSONDecodeError"]
    /\ UNCHANGED <<files, quotes, call, ncmds>>

\* add_quote, line 165, read_json(file) up to file_is_empty, and line 166
\* on the empty dict
AddStat(p) ==
    /\ procs[p].pc = "add_stat"
    /\ files' = read_json_fs(files, QUOTE_FILE)
    /\ procs' = IF files[QUOTE_FILE].kind = "json"
                THEN [procs EXCEPT ![p].pc = "add_read"]
                ELSE [procs EXCEPT ![p].pc = "open",
                         ![p].file_contents =
                            DictSet(<<>>, IntKey(procs[p].n),
                                    procs[p].text, procs[p].author)]
    /\ UNCHANGED <<quotes, call, ncmds>>

\* add_quote, line 165, the read, and line 166
AddRead(p) ==
    /\ procs[p].pc = "add_read"
    /\ procs' = IF ReadText(files, QUOTE_FILE)
                THEN [procs EXCEPT ![p].pc = "open",
                         ![p].file_contents =
                            DictSet(read_json(files, QUOTE_FILE),
                                    IntKey(procs[p].n),
                                    procs[p].text, procs[p].author)]
                ELSE [procs EXCEPT ![p].pc = "JSONDecodeError"]
    /\ UNCHANGED <<files, quotes, call, ncmds>>

\* add_quote, line 168: open(QUOTE_FILE, "w") truncates the file
OpenWrite(p) ==
    /\ procs[p].pc = "open"
    /\ files' = [files EXCEPT ![QUOTE_FILE] = ZeroLength]
    /\ procs' = [procs EXCEPT ![p].pc = "dump"]
    /\ UNCHANGED <<quotes, call, ncmds>>

\* add_quote, lines 169-170: json.dump and close
DumpClose(p) ==
    /\ procs[p].pc = "dump"
    /\ files' = [files EXCEPT ![QUOTE_FILE] =
                    JsonFile(JsonDump(procs[p].file_contents))]
    /\ procs' = [procs EXCEPT ![p].pc = "done"]
    /\ UNCHANGED <<quotes, call, ncmds>>

RaceNext ==
    \E p \in Procs :
        \/ LoadStat(p)
        \/ LoadRead(p)
        \/ AddStat(p)
        \/ AddRead(p)
        \/ OpenWrite(p)
        \/ DumpClose(p)

SpecRace == RaceInit /\ [][RaceNext]_vars

\* ---------------------------------------------------------------- C7
\* the store holds the quote invocation p added
Holds(p) ==
    \E i \in 1..Len(read_json(files, QUOTE_FILE)) :
        /\ read_json(files, QUOTE_FILE)[i].quote = procs[p].text
        /\ read_json(files, QUOTE_FILE)[i].author = procs[p].author

BothDone == \A p \in Procs : procs[p].pc = "done"

\* C7: two concurrent adds can take the same identifier, and whenever they
\* do and both finish without an error, the store holds only one of the two
\* added quotes: one add has overwritten the other.
C7_SameIdentifierLosesOneAdd ==
    (BothDone /\ procs[1].n = procs[2].n)
    => /\ Holds(1) # Holds(2)
       /\ Cardinality({i \in 1..Len(read_json(files, QUOTE_FILE)) :
             read_json(files, QUOTE_FILE)[i].k = StrKey(Str(procs[1].n))}) = 1

C7_Witness ==
    /\ BothDone
    /\ procs[1].n = 1
    /\ procs[2].n = 1
    /\ Len(read_json(files, QUOTE_FILE)) = 2
    /\ Holds(2)
    /\ ~Holds(1)

====
